---- MODULE Spec2Model ----
(***************************************************************************)
(* Model of core.py of jessyink-converter: the in-page presentation        *)
(* detector (_analyze_presentation), the step planner (_generate_steps)    *)
(* and the conversion job (convert_presentation) that drives one browser   *)
(* page through the planned steps and assembles the captured images.       *)
(***************************************************************************)
EXTENDS Integers, Sequences, FiniteSets, TLC

\* ---------------------------------------------------------------- bounds
MaxFrames  == 2     \* longest sozi frame list drawn
MaxSlides  == 2     \* longest jessyink slide list drawn
MaxEffects == 2     \* largest effects.length of one slide

FrameIds == {"intro", "body"}

\* ------------------------------------------------------ program constants
DefaultWidth  == 1024
DefaultHeight == 768

FileUrl == "file:///deck.svg"
SoziCss == ".sozi-frame-list, .sozi-frame-number { display: none !important; }"
MsgLoading == "Cargando presentacion..."
MsgPdf == "Generando PDF..."

VARIABLES
  doc,          \* page globals of the source document (sozi, slides, window)
  job,          \* job inputs: progress_callback given?, file already at output_path
  pc,           \* position of the convert_presentation coroutine
  exc,          \* exception in flight ("none" when there is none)
  playwright,   \* the async_playwright() context: "idle" | "running" | "stopped"
  browser,      \* "none" | "open" | "closed" (closed: browser.close() was awaited)
  page,         \* the one browser page: url, loaded document, style tag, viewport
  info,         \* result of _analyze_presentation
  steps,        \* result of _generate_steps
  idx,          \* loop index of enumerate(steps)
  image_files,  \* list of image paths appended so far
  tmp_dir,      \* files of the TemporaryDirectory: set of [path, image]
  calls,        \* number of per-step page.goto / reload / screenshot calls
  sink,         \* notifications received by progress_callback, in order
  outFile,      \* the file at output_path
  outcome       \* "running" | "ok" | name of the exception that propagated

vars == <<doc, job, pc, exc, playwright, browser, page, info, steps, idx,
          image_files, tmp_dir, calls, sink, outFile, outcome>>

\* ------------------------------------------------------------- utilities
SeqUpTo(S, n) == UNION {[1..k -> S] : k \in 0..n}

\* JavaScript `v || d` on numbers: 0 (and undefined, drawn as 0) is falsy
JsOr(v, d) == IF v = 0 THEN d ELSE v

\* ------------------------------------------------ _analyze_presentation
\* s.effects ? s.effects.length : 0
EffectCount(s) == IF s.effects.defined THEN s.effects.length ELSE 0

\* mutant: the probe forgets to test sozi.presentation
SoziDetected_NoPresentation(d) == d.sozi.defined

\* typeof sozi !== 'undefined' && sozi.presentation
SoziDetected(d) == d.sozi.defined /\ d.sozi.presentation

\* typeof slides !== 'undefined' && slides.length > 0
JessyInkDetected(d) == d.slides.defined /\ Len(d.slides.list) > 0

_analyze_presentation(d) ==
  IF SoziDetected(d)
  THEN [type |-> "sozi",
        width |-> JsOr(d.window.innerWidth, DefaultWidth),
        height |-> JsOr(d.window.innerHeight, DefaultHeight),
        data |-> d.sozi.frames]
  ELSE IF JessyInkDetected(d)
  THEN [type |-> "jessyink",
        width |-> JsOr(d.window.WIDTH, DefaultWidth),
        height |-> JsOr(d.window.HEIGHT, DefaultHeight),
        data |-> [i \in 1..Len(d.slides.list) |-> EffectCount(d.slides.list[i])]]
  ELSE [type |-> "unknown", width |-> 0, height |-> 0, data |-> <<>>]

\* ------------------------------------------------------- _generate_steps
\* mutant: the frame identifier without the fragment marker
FrameHash_Bare(frame_id) == frame_id

\* f"#{frame_id}"
FrameHash(frame_id) == "#" \o frame_id

\* f"#{slide_idx + 1}_{effect_step}"
EffectHash(slide_idx, effect_step) ==
  "#" \o ToString(slide_idx + 1) \o "_" \o ToString(effect_step)

\* mutant: range(effect_count) -- the unrevealed state of each slide is lost
EffectRange_NoInitial(effect_count) == effect_count

\* range(effect_count + 1)
EffectRange(effect_count) == effect_count + 1

\* inner loop: for effect_step in range(effect_count + 1): steps.append(...)
RECURSIVE EffectLoop(_, _, _, _)
EffectLoop(acc, slide_idx, effect_step, stop) ==
  IF effect_step >= stop THEN acc
  ELSE EffectLoop(Append(acc, EffectHash(slide_idx, effect_step)),
                  slide_idx, effect_step + 1, stop)

\* outer loop: for slide_idx, effect_count in enumerate(info["data"])
RECURSIVE SlideLoop(_, _, _)
SlideLoop(acc, data, slide_idx) ==
  IF slide_idx >= Len(data) THEN acc
  ELSE SlideLoop(EffectLoop(acc, slide_idx, 0, EffectRange(data[slide_idx + 1])),
                 data, slide_idx + 1)

_generate_steps(i) ==
  IF i.type = "sozi" THEN [k \in 1..Len(i.data) |-> FrameHash(i.data[k])]
  ELSE IF i.type = "jessyink" THEN SlideLoop(<<>>, i.data, 0)
  ELSE <<>>

\* ------------------------------------------------------------ job inputs
Frames == SeqUpTo(FrameIds, MaxFrames)

SoziUndefined == [defined |-> FALSE, presentation |-> FALSE, frames |-> <<>>]
SoziStates ==
  {SoziUndefined, [defined |-> TRUE, presentation |-> FALSE, frames |-> <<>>]}
  \cup {[defined |-> TRUE, presentation |-> TRUE, frames |-> f] : f \in Frames}

Slide ==
  {[effects |-> [defined |-> FALSE, length |-> 0]]}
  \cup {[effects |-> [defined |-> TRUE, length |-> n]] : n \in 0..MaxEffects}

SlidesStates ==
  {[defined |-> FALSE, list |-> <<>>]}
  \cup {[defined |-> TRUE, list |-> l] : l \in SeqUpTo(Slide, MaxSlides)}

\* a window that reports no intrinsic size, and one that does
Windows ==
  {[innerWidth |-> 0, innerHeight |-> 0, WIDTH |-> 0, HEIGHT |-> 0],
   [innerWidth |-> 800, innerHeight |-> 600, WIDTH |-> 640, HEIGHT |-> 480]}

Documents == [sozi : SoziStates, slides : SlidesStates, window : Windows]

Jobs == [progress_callback : BOOLEAN, existing : BOOLEAN]

\* the file at output_path
Absent    == [state |-> "absent", pages |-> <<>>]
Previous  == [state |-> "previous", pages |-> <<>>]
Truncated == [state |-> "truncated", pages |-> <<>>]
Partial   == [state |-> "partial", pages |-> <<>>]
Pdf(pages) == [state |-> "pdf", pages |-> pages]

InitialFile(j) == IF j.existing THEN Previous ELSE Absent

BlankPage == [url |-> "about:blank", loaded |-> FALSE, style |-> "",
              width |-> 0, height |-> 0]
NoInfo == [type |-> "none", width |-> 0, height |-> 0, data |-> <<>>]

Init ==
  /\ doc \in Documents
  /\ job \in Jobs
  /\ pc = "async_with"
  /\ exc = "none"
  /\ playwright = "idle"
  /\ browser = "none"
  /\ page = BlankPage
  /\ info = NoInfo
  /\ steps = <<>>
  /\ idx = 0
  /\ image_files = <<>>
  /\ tmp_dir = {}
  /\ calls = [goto |-> 0, reload |-> 0, screenshot |-> 0]
  /\ sink = <<>>
  /\ outFile = InitialFile(job)
  /\ outcome = "running"

\* ------------------------------------------------------ progress callback
\* if progress_callback: progress_callback(current, total, message)
Notify(current, total, message) ==
  IF job.progress_callback
  THEN Append(sink, [current |-> current, total |-> total, message |-> message])
  ELSE sink

\* f"Capturando {current}/{total}"
CaptureMsg(current, total) ==
  "Capturando " \o ToString(current) \o "/" \o ToString(total)

\* mutant: the 1-based step number is off by one
Current_OffByOne(i) == i + 2

\* current = idx + 1
Current(i) == i + 1

\* f"{current:04d}.png"
Fmt04d(n) ==
  LET d == ToString(n) IN
  IF Len(d) >= 4 THEN d
  ELSE IF Len(d) = 3 THEN "0" \o d
  ELSE IF Len(d) = 2 THEN "00" \o d
  ELSE "000" \o d

\* mutant: the image name does not depend on the step number
ImgPath_Fixed(current) == Fmt04d(1) \o ".png"

ImgPath(current) == Fmt04d(current) \o ".png"

\* ------------------------------------------------------ exception routing
\* statements inside `with tempfile.TemporaryDirectory()` (lines 87-110)
InTmp == {"loop", "step_goto", "step_reload", "step_sleep", "step_shot",
          "notify_pdf", "check_images", "open", "convert", "write"}

\* statements inside `try:` (lines 60-110)
InTry == {"notify_load", "goto", "wait_load", "analyze", "check_type", "style",
          "viewport", "plan", "tmp_enter"} \cup InTmp

\* where control goes when the statement at position p raises
Handler(p) ==
  IF p \in InTmp THEN "tmp_exit"
  ELSE IF p \in InTry THEN "finally"
  ELSE "async_exit"

Throw(e) == exc' = e /\ pc' = Handler(pc)

\* --------------------------------------------------- convert_presentation
\* line 54: async with async_playwright() as p
AsyncWith ==
  /\ pc = "async_with"
  /\ playwright' = "running"
  /\ pc' = "launch"
  /\ UNCHANGED <<doc, job, exc, browser, page, info, steps, idx, image_files,
                 tmp_dir, calls, sink, outFile, outcome>>

\* line 55: browser = await p.chromium.launch(headless=True)
Launch ==
  /\ pc = "launch"
  /\ browser' = "open"
  /\ pc' = "new_context"
  /\ UNCHANGED <<doc, job, exc, playwright, page, info, steps, idx, image_files,
                 tmp_dir, calls, sink, outFile, outcome>>

\* line 56: context = await browser.new_context(device_scale_factor=quality)
NewContext ==
  /\ pc = "new_context"
  /\ pc' = "new_page"
  /\ UNCHANGED <<doc, job, exc, playwright, browser, page, info, steps, idx,
                 image_files, tmp_dir, calls, sink, outFile, outcome>>

\* lines 57-58: page = await context.new_page(); file_url = ...
NewPage ==
  /\ pc = "new_page"
  /\ page' = BlankPage
  /\ pc' = "notify_load"
  /\ UNCHANGED <<doc, job, exc, playwright, browser, info, steps, idx,
                 image_files, tmp_dir, calls, sink, outFile, outcome>>

\* lines 60-62: try: progress_callback(0, 0, "Cargando presentacion...")
NotifyLoad ==
  /\ pc = "notify_load"
  /\ sink' = Notify(0, 0, MsgLoading)
  /\ pc' = "goto"
  /\ UNCHANGED <<doc, job, exc, playwright, browser, page, info, steps, idx,
                 image_files, tmp_dir, calls, outFile, outcome>>

\* line 64: await page.goto(file_url) -- a new document, without injected tags
Goto ==
  /\ pc = "goto"
  /\ page' = [page EXCEPT !.url = FileUrl, !.loaded = TRUE, !.style = ""]
  /\ pc' = "wait_load"
  /\ UNCHANGED <<doc, job, exc, playwright, browser, info, steps, idx,
                 image_files, tmp_dir, calls, sink, outFile, outcome>>

\* line 65: await page.wait_for_load_state("networkidle")
WaitLoad ==
  /\ pc = "wait_load"
  /\ pc' = "analyze"
  /\ UNCHANGED <<doc, job, exc, playwright, browser, page, info, steps, idx,
                 image_files, tmp_dir, calls, sink, outFile, outcome>>

\* line 67: info = await _analyze_presentation(page)
Analyze ==
  /\ pc = "analyze"
  /\ info' = _analyze_presentation(doc)
  /\ pc' = "check_type"
  /\ UNCHANGED <<doc, job, exc, playwright, browser, page, steps, idx,
                 image_files, tmp_dir, calls, sink, outFile, outcome>>

\* mutant: the unsupported-presentation test never fires
IsUnsupported_Never(i) == FALSE

\* line 68: if info["type"] == "unknown"
IsUnsupported(i) == i.type = "unknown"

\* lines 68-71: raise ValueError("No es una presentacion compatible ...")
CheckType ==
  /\ pc = "check_type"
  /\ IF IsUnsupported(info)
     THEN Throw("ValueError")
     ELSE pc' = "style" /\ exc' = exc
  /\ UNCHANGED <<doc, job, playwright, browser, page, info, steps, idx,
                 image_files, tmp_dir, calls, sink, outFile, outcome>>

\* lines 74-77: if info["type"] == "sozi": await page.add_style_tag(content=...)
AddStyle ==
  /\ pc = "style"
  /\ page' = IF info.type = "sozi" THEN [page EXCEPT !.style = SoziCss] ELSE page
  /\ pc' = "viewport"
  /\ UNCHANGED <<doc, job, exc, playwright, browser, info, steps, idx,
                 image_files, tmp_dir, calls, sink, outFile, outcome>>

\* lines 79-81: await page.set_viewport_size({"width": ..., "height": ...})
SetViewport ==
  /\ pc = "viewport"
  /\ page' = [page EXCEPT !.width = info.width, !.height = info.height]
  /\ pc' = "plan"
  /\ UNCHANGED <<doc, job, exc, playwright, browser, info, steps, idx,
                 image_files, tmp_dir, calls, sink, outFile, outcome>>

\* lines 83-85: steps = _generate_steps(info); total = len(steps); image_files = []
Plan ==
  /\ pc = "plan"
  /\ steps' = _generate_steps(info)
  /\ image_files' = <<>>
  /\ pc' = "tmp_enter"
  /\ UNCHANGED <<doc, job, exc, playwright, browser, page, info, idx,
                 tmp_dir, calls, sink, outFile, outcome>>

\* line 87: with tempfile.TemporaryDirectory() as tmp_dir
TmpEnter ==
  /\ pc = "tmp_enter"
  /\ tmp_dir' = {}
  /\ idx' = 0
  /\ pc' = "loop"
  /\ UNCHANGED <<doc, job, exc, playwright, browser, page, info, steps,
                 image_files, calls, sink, outFile, outcome>>

\* what page.screenshot() captures: the page as it is rendered now
Snapshot(pg) == [url |-> pg.url, style |-> pg.style,
                 width |-> pg.width, height |-> pg.height]

\* writing a file into the temporary directory (an existing path is replaced)
WriteFile(dir, path, image) ==
  {f \in dir : f.path # path} \cup {[path |-> path, image |-> image]}

\* lines 88-93: next loop iteration; progress_callback(current, total, ...)
StepProgress ==
  /\ pc = "loop"
  /\ idx < Len(steps)
  /\ sink' = Notify(Current(idx), Len(steps), CaptureMsg(Current(idx), Len(steps)))
  /\ pc' = "step_goto"
  /\ UNCHANGED <<doc, job, exc, playwright, browser, page, info, steps, idx,
                 image_files, tmp_dir, calls, outFile, outcome>>

\* line 95: await page.goto(f"{file_url}{step_hash}") -- the URL differs from
\* the loaded one in its fragment only: navigation inside the same document
StepGoto ==
  /\ pc = "step_goto"
  /\ page' = [page EXCEPT !.url = FileUrl \o steps[idx + 1]]
  /\ calls' = [calls EXCEPT !.goto = @ + 1]
  /\ pc' = "step_reload"
  /\ UNCHANGED <<doc, job, exc, playwright, browser, info, steps, idx,
                 image_files, tmp_dir, sink, outFile, outcome>>

\* what page.reload() leaves: the document loaded anew from its source, so
\* tags added to the previous document instance are gone
Reloaded(pg) == [pg EXCEPT !.style = ""]

\* line 96: await page.reload()
StepReload ==
  /\ pc = "step_reload"
  /\ page' = Reloaded(page)
  /\ calls' = [calls EXCEPT !.reload = @ + 1]
  /\ pc' = "step_sleep"
  /\ UNCHANGED <<doc, job, exc, playwright, browser, info, steps, idx,
                 image_files, tmp_dir, sink, outFile, outcome>>

\* line 97: await asyncio.sleep(TRANSITION_DELAY)
StepSleep ==
  /\ pc = "step_sleep"
  /\ pc' = "step_shot"
  /\ UNCHANGED <<doc, job, exc, playwright, browser, page, info, steps, idx,
                 image_files, tmp_dir, calls, sink, outFile, outcome>>

\* lines 99-101: img_path = ...; await page.screenshot(path=img_path);
\* image_files.append(img_path)
StepShot ==
  /\ pc = "step_shot"
  /\ tmp_dir' = WriteFile(tmp_dir, ImgPath(Current(idx)), Snapshot(page))
  /\ image_files' = Append(image_files, ImgPath(Current(idx)))
  /\ calls' = [calls EXCEPT !.screenshot = @ + 1]
  /\ idx' = idx + 1
  /\ pc' = "loop"
  /\ UNCHANGED <<doc, job, exc, playwright, browser, page, info, steps,
                 sink, outFile, outcome>>

\* line 88: the loop is exhausted
LoopExit ==
  /\ pc = "loop"
  /\ idx >= Len(steps)
  /\ pc' = "notify_pdf"
  /\ UNCHANGED <<doc, job, exc, playwright, browser, page, info, steps, idx,
                 image_files, tmp_dir, calls, sink, outFile, outcome>>

\* lines 103-104: progress_callback(total, total, "Generando PDF...")
NotifyPdf ==
  /\ pc = "notify_pdf"
  /\ sink' = Notify(Len(steps), Len(steps), MsgPdf)
  /\ pc' = "check_images"
  /\ UNCHANGED <<doc, job, exc, playwright, browser, page, info, steps, idx,
                 image_files, tmp_dir, calls, outFile, outcome>>

\* lines 106-107: if not image_files: raise RuntimeError("No se generaron ...")
CheckImages ==
  /\ pc = "check_images"
  /\ IF image_files = <<>>
     THEN Throw("RuntimeError")
     ELSE pc' = "open" /\ exc' = exc
  /\ UNCHANGED <<doc, job, playwright, browser, page, info, steps, idx,
                 image_files, tmp_dir, calls, sink, outFile, outcome>>

\* line 109: with open(output_path, "wb") as f -- creates or truncates the file
OpenOutput ==
  /\ pc = "open"
  /\ outFile' = Truncated
  /\ pc' = "convert"
  /\ UNCHANGED <<doc, job, exc, playwright, browser, page, info, steps, idx,
                 image_files, tmp_dir, calls, sink, outcome>>

\* the image stored at a path of the temporary directory
ImageAt(dir, path) == (CHOOSE f \in dir : f.path = path).image

\* img2pdf.convert([str(p) for p in image_files]): one page per path, in order
ConvertPages(files, dir) == [k \in 1..Len(files) |-> ImageAt(dir, files[k])]

\* line 110: img2pdf.convert(...) evaluated (the argument of f.write)
Convert ==
  /\ pc = "convert"
  /\ pc' = "write"
  /\ UNCHANGED <<doc, job, exc, playwright, browser, page, info, steps, idx,
                 image_files, tmp_dir, calls, sink, outFile, outcome>>

\* line 110: f.write(<document bytes>), then the file is closed
Write ==
  /\ pc = "write"
  /\ outFile' = Pdf(ConvertPages(image_files, tmp_dir))
  /\ pc' = "tmp_exit"
  /\ UNCHANGED <<doc, job, exc, playwright, browser, page, info, steps, idx,
                 image_files, tmp_dir, calls, sink, outcome>>

\* line 110 failing: open() has already truncated the file when
\* img2pdf.convert raises; a failing f.write leaves a partial file
AssembleFail ==
  /\ pc \in {"open", "convert", "write"}
  /\ outFile' = IF pc = "write" THEN Partial ELSE outFile
  /\ Throw(IF pc = "convert" THEN "ImageError" ELSE "OSError")
  /\ UNCHANGED <<doc, job, playwright, browser, page, info, steps, idx,
                 image_files, tmp_dir, calls, sink, outcome>>

\* end of the `with tempfile.TemporaryDirectory()` block, on every exit
TmpExit ==
  /\ pc = "tmp_exit"
  /\ tmp_dir' = {}
  /\ pc' = "finally"
  /\ UNCHANGED <<doc, job, exc, playwright, browser, page, info, steps, idx,
                 image_files, calls, sink, outFile, outcome>>

\* lines 112-113: finally: await browser.close()
Finally ==
  /\ pc = "finally"
  /\ browser' = "closed"
  /\ pc' = "async_exit"
  /\ UNCHANGED <<doc, job, exc, playwright, page, info, steps, idx,
                 image_files, tmp_dir, calls, sink, outFile, outcome>>

\* end of the `async with async_playwright()` block; the coroutine returns
\* or the exception in flight propagates to the caller
AsyncExit ==
  /\ pc = "async_exit"
  /\ playwright' = "stopped"
  /\ outcome' = IF exc = "none" THEN "ok" ELSE exc
  /\ pc' = "done"
  /\ UNCHANGED <<doc, job, exc, browser, page, info, steps, idx,
                 image_files, tmp_dir, calls, sink, outFile>>

\* the awaits of the coroutine: each may raise a browser error, and each is
\* a point where cancellation of the task is delivered
Awaits == {"launch", "new_context", "new_page", "goto", "wait_load", "analyze",
           "style", "viewport", "step_goto", "step_reload", "step_sleep",
           "step_shot"}

AwaitErrors(p) ==
  IF p = "step_sleep" THEN {"CancelledError"}
  ELSE {"PlaywrightError", "CancelledError"}

\* an await raises instead of returning
AwaitRaises ==
  /\ pc \in Awaits
  /\ pc = "style" => info.type = "sozi"
  /\ \E e \in AwaitErrors(pc) : Throw(e)
  /\ UNCHANGED <<doc, job, playwright, browser, page, info, steps, idx,
                 image_files, tmp_dir, calls, sink, outFile, outcome>>

Next ==
  \/ AsyncWith \/ Launch \/ NewContext \/ NewPage \/ NotifyLoad \/ Goto
  \/ WaitLoad \/ Analyze \/ CheckType \/ AddStyle \/ SetViewport \/ Plan
  \/ TmpEnter \/ StepProgress \/ StepGoto \/ StepReload \/ StepSleep
  \/ StepShot \/ LoopExit \/ NotifyPdf \/ CheckImages \/ OpenOutput
  \/ Convert \/ Write \/ AssembleFail \/ TmpExit \/ Finally \/ AsyncExit
  \/ AwaitRaises

Spec == Init /\ [][Next]_vars

\* ================================================================ claims
Analyzed == info.type # "none"

\* positions at which `steps` holds the plan of this job
Planned == pc \in ({"tmp_enter"} \cup InTmp)

\* sum of a list of effect counts
RECURSIVE SumSeq(_)
SumSeq(s) == IF s = <<>> THEN 0 ELSE s[1] + SumSeq(Tail(s))

\* number of steps emitted for the slides before slide i (1-based)
RECURSIVE StepsBefore(_, _)
StepsBefore(counts, i) ==
  IF i <= 1 THEN 0 ELSE StepsBefore(counts, i - 1) + counts[i - 1] + 1

\* C1: for jessyink metadata with effect counts e1..ek the plan has
\* sum(ei) + k steps, slide-major and effect-minor, and the step for effect
\* j (0 <= j <= ei) of slide i (1-based) is the address "#i_j".
C1_JessyInkPlan ==
  (Planned /\ info.type = "jessyink") =>
    /\ Len(steps) = SumSeq(info.data) + Len(info.data)
    /\ \A i \in 1..Len(info.data) : \A j \in 0..info.data[i] :
         steps[StepsBefore(info.data, i) + j + 1]
           = "#" \o ToString(i) \o "_" \o ToString(j)

C1_Witness ==
  /\ pc = "tmp_enter"
  /\ info.type = "jessyink"
  /\ info.data = <<0, 2>>
  /\ steps = <<"#1_0", "#2_0", "#2_1", "#2_2">>

\* C2: for sozi metadata with n frame identifiers (duplicates allowed) the
\* plan has exactly n steps and the i-th step addresses the i-th identifier.
C2_SoziPlan ==
  (Planned /\ info.type = "sozi") =>
    /\ Len(steps) = Len(info.data)
    /\ \A i \in 1..Len(info.data) : steps[i] = "#" \o info.data[i]

C2_Witness ==
  /\ pc = "tmp_enter"
  /\ info.type = "sozi"
  /\ info.data = <<"body", "body">>
  /\ steps = <<"#body", "#body">>

\* a notification sent for a capture step (lines 91-93)
IsStepNote(n) == n.message = CaptureMsg(n.current, n.total)

NoCalls == [goto |-> 0, reload |-> 0, screenshot |-> 0]

\* C3 (as claimed): a job that ends in failure has written nothing at the
\* output location, and a file put there by the job is the complete document.
C3_NoPartialOutput ==
  pc = "done" =>
    /\ outcome # "ok" => outFile = InitialFile(job)
    /\ outFile # InitialFile(job) => outFile.state = "pdf"

\* C4 (as claimed): a browser that was started has been closed by the time
\* the job returns or its error reaches the caller.
C4_BrowserClosedOnExit ==
  (pc = "done" /\ browser # "none") => browser = "closed"

\* C5 (as claimed): for a sozi document the injected style is present in the
\* loaded document at every screenshot, and so in every image captured.
C5_StyleAtEverySnapshot ==
  info.type = "sozi" =>
    /\ pc = "step_shot" => page.style = SoziCss
    /\ \A f \in tmp_dir : f.image.style = SoziCss

\* C6: when inspection yields unknown the job fails with the
\* unsupported-presentation error before any capture work: no plan, no step
\* navigation, reload or screenshot, no step notification, no output file.
C6_UnknownFailsFast ==
  info.type = "unknown" =>
    /\ pc \in {"check_type", "finally", "async_exit", "done"}
    /\ pc # "check_type" => exc = "ValueError"
    /\ pc = "done" => outcome = "ValueError"
    /\ steps = <<>> /\ image_files = <<>>
    /\ calls = NoCalls
    /\ \A k \in 1..Len(sink) : ~IsStepNote(sink[k])
    /\ outFile = InitialFile(job)

C6_Witness ==
  /\ pc = "done"
  /\ info.type = "unknown"
  /\ outcome = "ValueError"
  /\ doc.slides.defined
  /\ job.progress_callback
  /\ browser = "closed"

\* C7: the job returns successfully only with one artifact per planned step,
\* in step order, written as the pages in that order; a plan of zero steps
\* ends in the no-images failure and leaves the output location untouched.
C7_CompleteOrFail ==
  /\ (pc = "done" /\ outcome = "ok") =>
       /\ Len(steps) > 0
       /\ calls.screenshot = Len(steps)
       /\ Len(image_files) = Len(steps)
       /\ outFile.state = "pdf"
       /\ Len(outFile.pages) = Len(steps)
       /\ \A k \in 1..Len(steps) : outFile.pages[k].url = FileUrl \o steps[k]
  /\ (Planned /\ steps = <<>>) =>
       /\ pc \in {"tmp_enter", "loop", "notify_pdf", "check_images"}
       /\ calls = NoCalls
       /\ outFile = InitialFile(job)
  /\ (pc = "tmp_exit" /\ steps = <<>>) => exc = "RuntimeError"
  /\ (pc = "done" /\ outcome = "RuntimeError") =>
       steps = <<>> /\ info.type = "sozi" /\ outFile = InitialFile(job)

C7_Witness ==
  /\ pc = "done"
  /\ outcome = "ok"
  /\ Len(steps) = 3
  /\ outFile.state = "pdf"
  /\ outFile.pages[1].url # outFile.pages[2].url

\* C8 (as claimed): whenever the sink holds the notification (i, T) of a
\* step, i snapshots have been captured.
C8_NotifiedAfterSnapshot ==
  \A k \in 1..Len(sink) :
    IsStepNote(sink[k]) => calls.screenshot >= sink[k].current

\* C8 (amended): the notification (i, T) of step i is sent before step i's
\* navigation begins and after step i-1's snapshot: at that moment exactly
\* i-1 snapshots and i-1 step navigations have happened, and whenever the
\* sink holds (i, T) at least i-1 snapshots have been captured.
C8_NotifiedBeforeStep ==
  /\ \A k \in 1..Len(sink) :
       IsStepNote(sink[k]) =>
         /\ sink[k].total = Len(steps)
         /\ sink[k].current \in 1..Len(steps)
         /\ calls.screenshot >= sink[k].current - 1
  /\ (pc = "step_goto" /\ job.progress_callback) =>
       /\ sink # <<>>
       /\ IsStepNote(sink[Len(sink)])
       /\ sink[Len(sink)].current = idx + 1
       /\ calls.screenshot = idx
       /\ calls.goto = idx

C8_Witness ==
  /\ pc = "step_goto"
  /\ job.progress_callback
  /\ idx = 1
  /\ calls.screenshot = 1
  /\ sink[Len(sink)].current = 2

\* C9 (as claimed): every notification has total = 0 or 0 <= current <=
\* total, and total = 0 is sent only for the indeterminate initial-load
\* phase, never to report zero work.
C9_ProgressRange ==
  \A k \in 1..Len(sink) :
    /\ sink[k].total = 0 \/ (0 <= sink[k].current /\ sink[k].current <= sink[k].total)
    /\ sink[k].total = 0 => (k = 1 /\ sink[k].message = MsgLoading)

\* presence of each framework's global state in the document
SoziPresent == doc.sozi.defined /\ doc.sozi.presentation
SlidesPresent == doc.slides.defined

\* one effect count per slide, in document order, 0 without effects
SlideCounts ==
  [i \in 1..Len(doc.slides.list) |->
     IF doc.slides.list[i].effects.defined
     THEN doc.slides.list[i].effects.length ELSE 0]

\* C10 (as claimed): sozi whenever the sozi state is present; otherwise
\* jessyink whenever the slide list is present, also with zero slides, with
\* one effect count per slide; unknown only if neither is present.
C10_Cascade ==
  Analyzed =>
    /\ SoziPresent => (info.type = "sozi" /\ info.data = doc.sozi.frames)
    /\ (~SoziPresent /\ SlidesPresent) =>
         (info.type = "jessyink" /\ info.data = SlideCounts)
    /\ info.type = "unknown" => (~SoziPresent /\ ~SlidesPresent)

\* C10 (amended): sozi whenever the sozi state is present; otherwise
\* jessyink whenever the slide list is present and has at least one slide,
\* with one effect count per slide; unknown exactly when the sozi state is
\* absent and the slide list is absent or empty.
C10_CascadeNonEmpty ==
  Analyzed =>
    /\ SoziPresent => (info.type = "sozi" /\ info.data = doc.sozi.frames)
    /\ (~SoziPresent /\ SlidesPresent /\ doc.slides.list # <<>>) =>
         (info.type = "jessyink" /\ info.data = SlideCounts)
    /\ info.type = "unknown" <=>
         (~SoziPresent /\ (~SlidesPresent \/ doc.slides.list = <<>>))

C10_Witness ==
  /\ pc = "check_type"
  /\ info.type = "unknown"
  /\ doc.sozi.defined
  /\ SlidesPresent /\ doc.slides.list = <<>>

====
